---- MODULE Spec2Model ----
(***************************************************************************)
(* A model of tner/ner_trainer.py: the checkpoint directory written by     *)
(* Trainer (epoch_N model snapshots, optimizers/optimizer.N.pt, the        *)
(* trainer config files) and the three-phase GridSearcher.run() built on   *)
(* it.  The transformer model, the optimizer and the dataset are opaque:   *)
(* the weights of a model are abstracted to the metric they evaluate to.   *)
(***************************************************************************)
EXTENDS Integers, Sequences, FiniteSets, TLC

\* ------------------------------------------------------------------ bounds
\* Largest epoch number the unbounded extend loop of run() (line 387) may reach.
MaxEpoch == 3

\* How many times the process running a grid search may be killed.
MaxKills == 1

\* Python's None, and "no such file" for a file holding a number.
None == -1

\* Trainer.__init__'s default for epoch (line 48).
DefaultEpoch == 10
\* Every epoch number a snapshot can carry: training stops at the configured
\* epoch count, which is a GridSearcher or Trainer argument, the default, or
\* an extension of run()'s third phase.
Epochs == 1..(IF MaxEpoch > DefaultEpoch THEN MaxEpoch ELSE DefaultEpoch)
\* The values of the ranking metric (micro/f1), and so the weights a model
\* can have as far as evaluation tells them apart.
Metrics == {1, 2}
\* The epoch counts a stand-alone Trainer is constructed with.
EpochArgs == {1, 2, 3}
\* model_<token> directory names; the Trainer-only specification uses token 1.
Tokens == {1, 2, 3}
\* Weights of a freshly constructed pretrained model (never saved untrained).
Pretrained == 0

TRAINER_CONFIG == "trainer_config.json"
ADDITIONAL_TRAINING == "trainer_config.additional_training.json"
ConfigFiles == {TRAINER_CONFIG, ADDITIONAL_TRAINING}

\* Hyperparameters are integers: lr in units of 1e-5, weight_decay in units
\* of 1e-7, crf as 0/1.  data_split, model and max_length have the same
\* default in Trainer and GridSearcher and are never varied, so are left out.
MkConfig(ep, bs, lr, crf, seed, gas, wd, warm, mgn) ==
    [epoch |-> ep, batch_size |-> bs, lr |-> lr, crf |-> crf, random_seed |-> seed,
     gradient_accumulation_steps |-> gas, weight_decay |-> wd,
     lr_warmup_step_ratio |-> warm, max_grad_norm |-> mgn]

\* Trainer.__init__'s keyword defaults, with `ep` for epoch.
TrainerDefaults(ep) == MkConfig(ep, 128, 10, 0, 42, 4, 1, None, None)

\* self.config before any assignment (no Trainer object).
NoConfig == MkConfig(None, None, None, None, None, None, None, None, None)

VARIABLES
    \* ---- the checkpoint directories on disk, per directory token d
    cfg,            \* cfg[d][f]: <<>> (no file) or <<config>> for f in ConfigFiles
    snap,           \* snap[d][n]: weights saved in epoch_n, None if no such directory
    opt,            \* opt[d]: the n for which optimizers/optimizer.n.pt exists
    evalc,          \* evalc[d][n]: metric cached in epoch_n/eval/metric.json, or None
    \* ---- the Trainer object and the position inside train()/save()
    trainer_pc,     \* "none", "constructed", "train", "epoch", "save_model",
                    \* "save_opt", "save_rm", "saved", "partial", "done", "raised"
    trainer_dir,    \* self.checkpoint_dir
    trainer_file,   \* the config_file argument
    model,          \* self.model: None, or its weights
    current_epoch,  \* self.current_epoch
    config,         \* self.config
    e,              \* train()'s loop variable
    epoch_save,     \* train()'s argument (None or k)
    epoch_partial,  \* train()'s argument (None or p)
    save_site,      \* which call of save() is running: "loop" (line 170) or "final" (line 173)
    load_fail,      \* the epochs whose TransformersNER(path) raised in __init__
    \* ---- the files of the grid search's checkpoint root
    root_cfg,       \* config_static.json, config_dynamic.json, config_eval.json:
                    \* each <<>> (no file) or <<content>>
    metric_1st,     \* metric.1st.json: <<>> or <<rows>>, a row being <<dir, epoch, score>>
    metric_2nd,     \* metric.2nd.json: likewise
    metric_3rd,     \* metric.3rd.json: <<>> or <<rows>>, a row being <<epoch, score>>
    best_model,     \* best_model/: <<>> or <<[w, ev, cfg]>>
    \* ---- the GridSearcher object and the position inside run()
    pc,             \* "idle", "ready", "p1_config", "p1_wait", "p1_eval", "p1_rank",
                    \* "p2_config", "p2_wait", "p2_eval", "p2_rank", "p3_loop",
                    \* "p3_check", "p3_wait", "p3_eval", "copy", "done", "raised", "crashed"
    gs,             \* <<>> or <<the GridSearcher's fields>>
    n,              \* the loop index of the running for loop (1-based)
    ckpt_exist,     \* ckpt_exist[d]: <<>> or <<config>> as loaded at line 303
    checkpoints,    \* the list checkpoints
    metrics,        \* the dict / list metrics
    best_model_ckpt,    \* <<>> or <<dir, epoch>>
    best_metric_score,
    epoch,          \* run()'s local epoch (lines 376, 388)
    run_config,     \* run()'s local config (line 379)
    \* ---- history
    evaluated,      \* the <<dir, epoch>> on which tmp_model.evaluate has been run (line 433)
    prev,           \* the run() before this one, if it returned: its searcher and results
    kills,          \* how many times a process running run() has been killed
    bound           \* the <<grid point, directory>> pairs the first phase has resolved so far

diskVars == <<cfg, snap, opt, evalc>>
rootVars == <<root_cfg, metric_1st, metric_2nd, metric_3rd, best_model>>
runVars == <<pc, gs, n, ckpt_exist, checkpoints, metrics, best_model_ckpt,
             best_metric_score, epoch, run_config>>
histVars == <<evaluated, prev, kills, bound>>
trainerVars == <<trainer_pc, trainer_dir, trainer_file, model, current_epoch, config,
                 e, epoch_save, epoch_partial, save_site, load_fail>>

\* ------------------------------------------------------------ Trainer.__init__
\* The epochs found by glob('epoch_*').
SnapshotEpochs(d) == {k \in Epochs : snap[d][k] # None}

\* ResumeCandidate without the test of lines 64-65: a snapshot is loaded
\* whether or not its optimizer snapshot exists.
ResumeCandidateMutant(d, file, fails, k, st) ==
    IF cfg[d][file] = <<>> THEN st
    ELSE IF k \in fails THEN [st EXCEPT !.config = cfg[d][file][1]]
    ELSE [model |-> snap[d][k], current_epoch |-> k, config |-> cfg[d][file][1]]

\* One iteration of the resume loop for candidate k (lines 64-75): st is the
\* record of self.model, self.current_epoch and self.config so far.
ResumeCandidate(d, file, fails, k, st) ==
    IF k \notin opt[d] THEN st                                   \* line 64-65: continue
    ELSE IF cfg[d][file] = <<>> THEN st                          \* load_json raises
    ELSE IF k \in fails THEN [st EXCEPT !.config = cfg[d][file][1]]  \* TransformersNER raises
    ELSE [model |-> snap[d][k], current_epoch |-> k, config |-> cfg[d][file][1]]
         \* the assert of line 73 raises inside the try and is only logged

\* The loop of line 63 over the snapshot epochs in descending order; there is
\* no break, so every candidate is visited.
RECURSIVE ResumeScanFrom(_, _, _, _, _)
ResumeScanFrom(d, file, fails, k, st) ==
    IF k = 0 THEN st
    ELSE ResumeScanFrom(d, file, fails, k - 1,
            IF k \in SnapshotEpochs(d) THEN ResumeCandidate(d, file, fails, k, st) ELSE st)

ResumeScan(d, file, fails) ==
    ResumeScanFrom(d, file, fails, Cardinality(Epochs),
                   [model |-> None, current_epoch |-> 0, config |-> NoConfig])

\* Trainer.__init__ (lines 59-107): resume, or initialise fresh and write the
\* config file.  `args` are the hyperparameter arguments.
Trainer__init__(d, file, args, fails) ==
    LET st == ResumeScan(d, file, fails) IN
    /\ trainer_dir' = d
    /\ trainer_file' = file
    /\ load_fail' = fails
    /\ current_epoch' = st.current_epoch
    /\ IF st.model = None
       THEN /\ model' = Pretrained
            /\ config' = args
            /\ cfg' = [cfg EXCEPT ![d][file] = <<args>>]
       ELSE /\ model' = st.model
            /\ config' = st.config
            /\ cfg' = cfg

\* ---------------------------------------------------------------- Trainer.train
\* TrainBegin without the check of line 135 and with e bound before the loop:
\* a Trainer already at its epoch count falls through to the final save.
TrainBeginMutant ==
    /\ trainer_pc = "train"
    /\ IF current_epoch # 0 /\ current_epoch \notin opt[trainer_dir]
       THEN trainer_pc' = "raised" /\ e' = e /\ save_site' = save_site
       ELSE IF current_epoch >= config.epoch
       THEN trainer_pc' = "save_model" /\ e' = current_epoch - 1 /\ save_site' = "final"
       ELSE trainer_pc' = "epoch" /\ e' = current_epoch /\ save_site' = save_site
    /\ UNCHANGED <<rootVars, runVars, histVars, diskVars, trainer_dir, trainer_file, model,
                   current_epoch, config, epoch_save, epoch_partial, load_fail>>

\* train() up to the loop header (lines 132-145): setup_optimizer loads
\* optimizer.<current_epoch>.pt when resuming, then the assert, then the range.
TrainBegin ==
    /\ trainer_pc = "train"
    /\ IF \/ (current_epoch # 0 /\ current_epoch \notin opt[trainer_dir])  \* torch.load raises
          \/ current_epoch = config.epoch              \* assert 'training is over'
          \/ current_epoch > config.epoch              \* empty range: save(e) with e unbound
       THEN /\ trainer_pc' = "raised"
            /\ e' = e
       ELSE /\ trainer_pc' = "epoch"
            /\ e' = current_epoch
    /\ UNCHANGED <<rootVars, runVars, histVars, diskVars, trainer_dir, trainer_file, model, current_epoch, config,
                   epoch_save, epoch_partial, save_site, load_fail>>

\* One pass of the loop body (lines 146-170): the epoch's training changes the
\* weights; then the periodic save is called or not.
TrainEpoch ==
    /\ trainer_pc = "epoch"
    /\ \E w \in Metrics : model' = w
    /\ IF epoch_save # None /\ (e + 1) % epoch_save = 0 /\ (e + 1) # 0
       THEN trainer_pc' = "save_model" /\ save_site' = "loop"
       ELSE trainer_pc' = "partial" /\ save_site' = save_site
    /\ UNCHANGED <<rootVars, runVars, histVars, diskVars, trainer_dir, trainer_file, current_epoch, config, e,
                   epoch_save, epoch_partial, load_fail>>

\* save(), lines 111-114: the model snapshot epoch_{e+1}.
SaveModel ==
    /\ trainer_pc = "save_model"
    /\ snap' = [snap EXCEPT ![trainer_dir][e + 1] = model]
    /\ trainer_pc' = "save_opt"
    /\ UNCHANGED <<rootVars, runVars, histVars, cfg, opt, evalc, trainer_dir, trainer_file, model, current_epoch,
                   config, e, epoch_save, epoch_partial, save_site, load_fail>>

\* save(), lines 116-126: optimizers/optimizer.{e+1}.pt.
SaveOptimizer ==
    /\ trainer_pc = "save_opt"
    /\ opt' = [opt EXCEPT ![trainer_dir] = @ \cup {e + 1}]
    /\ trainer_pc' = "save_rm"
    /\ UNCHANGED <<rootVars, runVars, histVars, cfg, snap, evalc, trainer_dir, trainer_file, model, current_epoch,
                   config, e, epoch_save, epoch_partial, save_site, load_fail>>

\* SaveRemoveOld removing the superseded epoch's model snapshot as well.
SaveRemoveOldMutant ==
    /\ trainer_pc = "save_rm"
    /\ opt' = [opt EXCEPT ![trainer_dir] = @ \ {e}]
    /\ snap' = [snap EXCEPT ![trainer_dir] =
                    [k \in Epochs |-> IF k = e THEN None ELSE @[k]]]
    /\ trainer_pc' = "saved"
    /\ UNCHANGED <<rootVars, runVars, histVars, cfg, evalc, trainer_dir, trainer_file, model,
                   current_epoch, config, e, epoch_save, epoch_partial, save_site, load_fail>>

\* save(), lines 127-129: remove optimizers/optimizer.{e}.pt if it exists.
SaveRemoveOld ==
    /\ trainer_pc = "save_rm"
    /\ opt' = [opt EXCEPT ![trainer_dir] = @ \ {e}]
    /\ trainer_pc' = "saved"
    /\ UNCHANGED <<rootVars, runVars, histVars, cfg, snap, evalc, trainer_dir, trainer_file, model, current_epoch,
                   config, e, epoch_save, epoch_partial, save_site, load_fail>>

\* Return from save(): to the loop (line 171) or out of train() (line 174).
SaveReturn ==
    /\ trainer_pc = "saved"
    /\ trainer_pc' = IF save_site = "loop" THEN "partial" ELSE "done"
    /\ UNCHANGED <<rootVars, runVars, histVars, diskVars, trainer_dir, trainer_file, model, current_epoch, config, e,
                   epoch_save, epoch_partial, save_site, load_fail>>

\* LoopNext without the break of lines 171-172: the loop always runs to the
\* configured epoch count.
LoopNextMutant ==
    /\ trainer_pc = "partial"
    /\ IF e + 1 >= config.epoch
       THEN trainer_pc' = "save_model" /\ save_site' = "final" /\ e' = e
       ELSE trainer_pc' = "epoch" /\ save_site' = save_site /\ e' = e + 1
    /\ UNCHANGED <<rootVars, runVars, histVars, diskVars, trainer_dir, trainer_file, model,
                   current_epoch, config, epoch_save, epoch_partial, load_fail>>

\* Lines 171-173 and the loop header: break on epoch_partial, go on to the
\* next epoch, or leave the loop; leaving it calls the final save(e).
LoopNext ==
    /\ trainer_pc = "partial"
    /\ IF (epoch_partial # None /\ e + 1 = epoch_partial) \/ e + 1 >= config.epoch
       THEN trainer_pc' = "save_model" /\ save_site' = "final" /\ e' = e
       ELSE trainer_pc' = "epoch" /\ save_site' = save_site /\ e' = e + 1
    /\ UNCHANGED <<rootVars, runVars, histVars, diskVars, trainer_dir, trainer_file, model, current_epoch, config,
                   epoch_save, epoch_partial, load_fail>>

TrainerStep ==
    \/ TrainBegin
    \/ TrainEpoch
    \/ SaveModel
    \/ SaveOptimizer
    \/ SaveRemoveOld
    \/ SaveReturn
    \/ LoopNext

\* The Trainer object is gone (process exit).
NoTrainer ==
    /\ trainer_pc' = "none"
    /\ trainer_dir' = None
    /\ trainer_file' = TRAINER_CONFIG
    /\ model' = None
    /\ current_epoch' = 0
    /\ config' = NoConfig
    /\ e' = None
    /\ epoch_save' = None
    /\ epoch_partial' = None
    /\ save_site' = "final"
    /\ load_fail' = {}

\* ------------------------------------------- a program that uses one Trainer
\* trainer = Trainer(checkpoint_dir, epoch=ep), the loads of the snapshots in
\* `fails` raising.
Construct(ep, fails) ==
    /\ trainer_pc \in {"none", "done", "raised"}
    /\ Trainer__init__(1, TRAINER_CONFIG, TrainerDefaults(ep), fails)
    /\ trainer_pc' = "constructed"
    /\ e' = None
    /\ epoch_save' = None
    /\ epoch_partial' = None
    /\ save_site' = "final"
    /\ UNCHANGED <<snap, opt, evalc, rootVars, runVars, histVars>>

\* A Trainer is constructed, with any epoch count, and every snapshot loads.
NewTrainer == \E ep \in EpochArgs : Construct(ep, {})

\* A Trainer is constructed while the load of some snapshots that have an
\* optimizer snapshot raises (an unreadable file, no memory left).
NewTrainerLoadError ==
    \E ep \in EpochArgs, fails \in SUBSET (SnapshotEpochs(1) \cap opt[1]) :
        fails # {} /\ Construct(ep, fails)

\* trainer.train(epoch_save=es, epoch_partial=ep).
CallTrain ==
    /\ trainer_pc = "constructed"
    /\ \E es \in {None, 1, 2}, ep \in {None} \cup EpochArgs :
           /\ epoch_save' = es
           /\ epoch_partial' = ep
    /\ trainer_pc' = "train"
    /\ UNCHANGED <<rootVars, runVars, histVars, diskVars, trainer_dir, trainer_file, model, current_epoch, config, e,
                   save_site, load_fail>>

\* The process is killed while a Trainer exists.
TrainerCrash ==
    /\ trainer_pc # "none"
    /\ NoTrainer
    /\ UNCHANGED <<diskVars, rootVars, runVars, histVars>>

InitDisk ==
    /\ cfg = [d \in Tokens |-> [f \in ConfigFiles |-> <<>>]]
    /\ snap = [d \in Tokens |-> [k \in Epochs |-> None]]
    /\ opt = [d \in Tokens |-> {}]
    /\ evalc = [d \in Tokens |-> [k \in Epochs |-> None]]

InitTrainer ==
    /\ trainer_pc = "none"
    /\ trainer_dir = None
    /\ trainer_file = TRAINER_CONFIG
    /\ model = None
    /\ current_epoch = 0
    /\ config = NoConfig
    /\ e = None
    /\ epoch_save = None
    /\ epoch_partial = None
    /\ save_site = "final"
    /\ load_fail = {}

\* =================================================================== GridSearcher
\* A candidate argument of GridSearcher.__init__: a scalar (is_list FALSE,
\* val = <<the value>>) or a list.
Scalar(v) == [is_list |-> FALSE, val |-> <<v>>]
List(s) == [is_list |-> TRUE, val |-> s]

Range(s) == {s[i] : i \in 1..Len(s)}

\* sorted(_val, reverse=True) on numbers.
RECURSIVE SortDesc(_)
SortDesc(s) ==
    IF s = <<>> THEN <<>>
    ELSE LET m == CHOOSE x \in Range(s) : \A y \in Range(s) : y <= x
             i == CHOOSE j \in 1..Len(s) : s[j] = m
         IN <<m>> \o SortDesc(SubSeq(s, 1, i - 1) \o SubSeq(s, i + 1, Len(s)))

\* _val with its first None popped (line 250).
PopNone(s) ==
    LET i == CHOOSE j \in 1..Len(s) : s[j] = None /\ \A k \in 1..(j - 1) : s[k] # None
    IN SubSeq(s, 1, i - 1) \o SubSeq(s, i + 1, Len(s))

\* to_list (lines 245-252); the assert of line 248 raises on a repeated value.
to_list_raises(v) == v.is_list /\ Len(v.val) # Cardinality(Range(v.val))
to_list(v) ==
    IF ~v.is_list THEN v.val
    ELSE IF None \in Range(v.val) THEN <<None>> \o SortDesc(PopNone(v.val))
    ELSE SortDesc(v.val)

\* itertools.product of a sequence of lists: tuples in lexicographic order of
\* position, the last axis fastest.
RECURSIVE Product(_)
Product(axes) ==
    IF axes = <<>> THEN << <<>> >>
    ELSE LET rest == Product(Tail(axes))
             h == Head(axes)
             k == Len(rest)
         IN [i \in 1..(Len(h) * k) |-> <<h[((i - 1) \div k) + 1]>> \o rest[((i - 1) % k) + 1]]

\* The seven grid axes in the order of lines 264-272.
AllDynamicConfigs(dc) ==
    Product(<<dc.lr, dc.crf, dc.random_seed, dc.weight_decay, dc.lr_warmup_step_ratio,
              dc.max_grad_norm, dc.gradient_accumulation_steps>>)

\* Lines 306-310: the Trainer arguments of one grid point.
GridConfig(static, t) ==
    MkConfig(static.epoch, static.batch_size, t[1], t[2], t[3], t[7], t[4], t[5], t[6])

\* Line 311: the dynamic hyperparameters of a persisted trainer config, as a
\* grid tuple.
DynamicOf(c) ==
    <<c.lr, c.crf, c.random_seed, c.weight_decay, c.lr_warmup_step_ratio,
      c.max_grad_norm, c.gradient_accumulation_steps>>

\* self.eval_config (line 233): never varied.
EvalConfig == [max_length_eval |-> 128, metric |-> "micro/f1", data_split |-> "2020.dev"]

\* The arguments GridSearcher is constructed with: lr, epoch, epoch_partial
\* and n_max_config of the searches run against the checkpoint root.
SearcherArgs ==
    {<<List(<<1, 10>>), 2, 1, 1>>,
     <<List(<<1, 10>>), 2, 1, 2>>,
     <<Scalar(10), 2, 1, 1>>,
     <<Scalar(10), 1, 1, 1>>,
     <<List(<<10, 10>>), 2, 1, 1>>}

G == gs[1]

\* GridSearcher.__init__ (lines 232-272), the searcher's fields.
Searcher(lr, ep, partial, nmax) ==
    LET dc == [lr |-> to_list(lr), crf |-> to_list(Scalar(1)),
               random_seed |-> to_list(Scalar(0)), weight_decay |-> to_list(Scalar(None)),
               lr_warmup_step_ratio |-> to_list(Scalar(None)),
               max_grad_norm |-> to_list(Scalar(None)),
               gradient_accumulation_steps |-> to_list(Scalar(1))]
    IN [static_config |-> [epoch |-> ep, batch_size |-> 32],
        dynamic_config |-> dc,
        epoch |-> ep, epoch_partial |-> partial, n_max_config |-> nmax,
        all_dynamic_configs |-> AllDynamicConfigs(dc)]

NoRunLocals ==
    /\ n' = 0
    /\ ckpt_exist' = [d \in Tokens |-> <<>>]
    /\ checkpoints' = <<>>
    /\ metrics' = <<>>
    /\ best_model_ckpt' = <<>>
    /\ best_metric_score' = None
    /\ epoch' = None
    /\ run_config' = NoConfig

\* What a returned run() left behind, kept to compare the next run() with.
NoPrev == [valid |-> FALSE, gs |-> <<>>, m1 |-> <<>>, m2 |-> <<>>, m3 |-> <<>>,
           best_model |-> <<>>, best_model_ckpt |-> <<>>]
ThisRun == [valid |-> TRUE, gs |-> gs, m1 |-> metric_1st, m2 |-> metric_2nd,
            m3 |-> metric_3rd, best_model |-> best_model,
            best_model_ckpt |-> best_model_ckpt]

\* searcher = GridSearcher(checkpoint_dir, ...) in a new process, with
\* arguments out of `args`.
NewSearcher(args) ==
    /\ pc \in {"idle", "done", "raised", "crashed"}
    /\ \E a \in args :
           IF to_list_raises(a[1])
           THEN pc' = "raised" /\ gs' = <<>>
           ELSE pc' = "ready" /\ gs' = <<Searcher(a[1], a[2], a[3], a[4])>>
    /\ prev' = IF pc = "done" THEN ThisRun ELSE NoPrev
    /\ NoRunLocals
    /\ UNCHANGED <<diskVars, rootVars, trainerVars, evaluated, kills, bound>>

GridSearcher__init__ == NewSearcher(SearcherArgs)

\* The names under the checkpoint root that run() itself creates (the
\* model_<token> directories apart).
RootNames ==
    {"grid_search.log"}
    \cup (IF root_cfg.static # <<>> THEN {"config_static.json"} ELSE {})
    \cup (IF root_cfg.dynamic # <<>> THEN {"config_dynamic.json"} ELSE {})
    \cup (IF root_cfg.eval # <<>> THEN {"config_eval.json"} ELSE {})
    \cup (IF metric_1st # <<>> THEN {"metric.1st.json"} ELSE {})
    \cup (IF metric_2nd # <<>> THEN {"metric.2nd.json"} ELSE {})
    \cup (IF metric_3rd # <<>> THEN {"metric.3rd.json"} ELSE {})
    \cup (IF best_model # <<>> THEN {"best_model"} ELSE {})

\* Line 279 formats the path with c, the config dict, and not with _f, the
\* file name: the path is the dict's repr, which starts with "{".
SanityPath(which) ==
    CASE which = "static" -> "{'data_split': ..., 'model': ..., 'batch_size': ..., 'epoch': ..., 'max_length': ...}"
      [] which = "dynamic" -> "{'lr': [...], 'crf': [...], 'random_seed': [...], ...}"
      [] which = "eval" -> "{'max_length_eval': ..., 'metric': 'micro/f1', 'data_split': ...}"

\* Lines 277-283: the sanity check raises when a file exists at the path and
\* its content differs from the config just computed.
SanityRaises ==
    \/ SanityPath("static") \in RootNames /\ root_cfg.static # <<G.static_config>>
    \/ SanityPath("dynamic") \in RootNames /\ root_cfg.dynamic # <<G.dynamic_config>>
    \/ SanityPath("eval") \in RootNames /\ root_cfg.eval # <<EvalConfig>>

\* run(), lines 275-303: the sanity check, the three config files, the scan
\* of the existing model_*/trainer_config.json.
RunBegin ==
    /\ pc = "ready"
    /\ IF SanityRaises
       THEN /\ pc' = "raised"
            /\ UNCHANGED <<root_cfg, n, ckpt_exist>>
       ELSE /\ root_cfg' = [static |-> <<G.static_config>>,
                            dynamic |-> <<G.dynamic_config>>,
                            eval |-> <<EvalConfig>>]
            /\ ckpt_exist' = [d \in Tokens |-> cfg[d][TRAINER_CONFIG]]
            /\ n' = 1
            /\ pc' = "p1_config"
    /\ UNCHANGED <<diskVars, metric_1st, metric_2nd, metric_3rd, best_model, trainerVars,
                   gs, checkpoints, metrics, best_model_ckpt, best_metric_score, epoch,
                   run_config, histVars>>

\* trainer = Trainer(d, ...); trainer.train(epoch_save=es, epoch_partial=ep),
\* up to the call of train().
StartTrainer(d, file, args, es, ep) ==
    /\ Trainer__init__(d, file, args, {})
    /\ trainer_pc' = "train"
    /\ epoch_save' = es
    /\ epoch_partial' = ep
    /\ e' = None
    /\ save_site' = "final"

\* Line 313: the existing directories whose dynamic hyperparameters are t's.
DuplicatedCkpt(t) ==
    {d \in Tokens : ckpt_exist[d] # <<>> /\ DynamicOf(ckpt_exist[d][1]) = t}

\* get_random_string (lines 32-37): any token not excluded.
get_random_string(exclude) == Tokens \ exclude

\* ResolveDir taking an existing directory whenever at least one matches.
ResolveDirMutant(t) ==
    [raises |-> FALSE,
     dirs |-> IF Cardinality(DuplicatedCkpt(t)) >= 1 THEN DuplicatedCkpt(t)
              ELSE get_random_string({d \in Tokens : ckpt_exist[d] # <<>>}
                                     \cup Range(checkpoints))]

\* Lines 315-323: whether the ValueError of line 323 is raised, and else the
\* directories the grid point may resolve to.
ResolveDir(t) ==
    [raises |-> Cardinality(DuplicatedCkpt(t)) > 1,
     dirs |-> IF Cardinality(DuplicatedCkpt(t)) = 1 THEN DuplicatedCkpt(t)
              ELSE IF Cardinality(DuplicatedCkpt(t)) = 0
              THEN get_random_string({d \in Tokens : ckpt_exist[d] # <<>>}
                                     \cup Range(checkpoints))
              ELSE {}]

\* The guards of lines 325, 358 and 394: no snapshot epoch_k in directory d.
NotTrainedTo(d, k) == snap[d][k] = None

\* After checkpoints.append of line 329: the next grid point, or the
\* evaluation loop of line 333.
Phase1Append(d) ==
    /\ checkpoints' = Append(checkpoints, d)
    /\ IF n < Len(G.all_dynamic_configs)
       THEN n' = n + 1 /\ pc' = "p1_config"
       ELSE n' = 1 /\ pc' = "p1_eval"

\* One pass of the loop of lines 304-329, up to the call of train().
Phase1Config ==
    /\ pc = "p1_config"
    /\ LET t == G.all_dynamic_configs[n] IN
       IF ResolveDir(t).raises
       THEN /\ pc' = "raised"
            /\ UNCHANGED <<n, checkpoints, cfg, trainerVars, bound>>
       ELSE \E d \in ResolveDir(t).dirs :
               /\ bound' = bound \cup {<<t, d>>}
               /\ IF NotTrainedTo(d, G.epoch_partial)
                  THEN /\ StartTrainer(d, TRAINER_CONFIG, GridConfig(G.static_config, t),
                                       1, G.epoch_partial)
                       /\ pc' = "p1_wait"
                       /\ UNCHANGED <<n, checkpoints>>
                  ELSE /\ Phase1Append(d)
                       /\ UNCHANGED <<cfg, trainerVars>>
    /\ UNCHANGED <<snap, opt, evalc, rootVars, gs, ckpt_exist, metrics, best_model_ckpt,
                   best_metric_score, epoch, run_config, evaluated, prev, kills>>

\* train() of line 328 returned.
Phase1Trained ==
    /\ pc = "p1_wait"
    /\ trainer_pc = "done"
    /\ Phase1Append(trainer_dir)
    /\ NoTrainer
    /\ UNCHANGED <<diskVars, rootVars, gs, ckpt_exist, metrics, best_model_ckpt,
                   best_metric_score, epoch, run_config, histVars>>

\* The Trainer raised inside run(): run() raises.
TrainerRaised ==
    /\ pc \in {"p1_wait", "p2_wait", "p3_wait"}
    /\ trainer_pc = "raised"
    /\ pc' = "raised"
    /\ NoTrainer
    /\ UNCHANGED <<diskVars, rootVars, gs, n, ckpt_exist, checkpoints, metrics,
                   best_model_ckpt, best_metric_score, epoch, run_config, histVars>>

\* tmp_model.evaluate (line 433): the metric of the saved weights.
Evaluate(w) == w

\* eval_single_model (lines 422-438) on epoch_k of directory d: the cached
\* metric if eval/metric.json holds one, else an evaluation of the snapshot;
\* TransformersNER raises when there is no snapshot to load.
eval_single_model(d, k) ==
    IF evalc[d][k] # None THEN [raises |-> FALSE, invoked |-> FALSE, metric |-> evalc[d][k]]
    ELSE IF snap[d][k] = None THEN [raises |-> TRUE, invoked |-> FALSE, metric |-> None]
    ELSE [raises |-> FALSE, invoked |-> TRUE, metric |-> Evaluate(snap[d][k])]

\* One pass of the loop of lines 333-338.
Phase1Eval ==
    /\ pc = "p1_eval"
    /\ LET d == checkpoints[n]
           k == G.epoch_partial
           r == eval_single_model(d, k)
       IN IF r.raises
          THEN /\ pc' = "raised"
               /\ UNCHANGED <<evalc, metrics, n, evaluated>>
          ELSE /\ evalc' = [evalc EXCEPT ![d][k] = r.metric]
               /\ metrics' = Append(metrics, <<d, k, r.metric>>)
               /\ evaluated' = IF r.invoked THEN evaluated \cup {<<d, k>>} ELSE evaluated
               /\ IF n < Len(checkpoints)
                  THEN n' = n + 1 /\ pc' = "p1_eval"
                  ELSE n' = 1 /\ pc' = "p1_rank"
    /\ UNCHANGED <<cfg, snap, opt, rootVars, trainerVars, gs, ckpt_exist, checkpoints,
                   best_model_ckpt, best_metric_score, epoch, run_config, prev, kills, bound>>

\* SortByScore without reverse=True: ascending, stable.
RECURSIVE SortByScoreMutant(_)
SortByScoreMutant(rows) ==
    IF rows = <<>> THEN <<>>
    ELSE LET i == CHOOSE j \in 1..Len(rows) :
                      /\ \A k \in 1..Len(rows) : rows[k][3] >= rows[j][3]
                      /\ \A k \in 1..(j - 1) : rows[k][3] > rows[j][3]
         IN <<rows[i]>> \o SortByScoreMutant(SubSeq(rows, 1, i - 1)
                                              \o SubSeq(rows, i + 1, Len(rows)))

\* sorted(metrics.items(), key=lambda x: x[1], reverse=True): stable, so rows
\* of equal score keep their order.
RECURSIVE SortByScore(_)
SortByScore(rows) ==
    IF rows = <<>> THEN <<>>
    ELSE LET i == CHOOSE j \in 1..Len(rows) :
                      /\ \A k \in 1..Len(rows) : rows[k][3] <= rows[j][3]
                      /\ \A k \in 1..(j - 1) : rows[k][3] < rows[j][3]
         IN <<rows[i]>> \o SortByScore(SubSeq(rows, 1, i - 1) \o SubSeq(rows, i + 1, Len(rows)))

Min(a, b) == IF a < b THEN a ELSE b

\* Lines 339-354: rank, write metric.1st.json, return if epoch_partial is
\* epoch, else keep the top n_max_config rows.
Phase1Rank ==
    /\ pc = "p1_rank"
    /\ LET ranked == SortByScore(metrics) IN
       /\ metric_1st' = <<ranked>>
       /\ IF G.epoch_partial = G.epoch
          THEN /\ pc' = "done"
               /\ metrics' = ranked
               /\ UNCHANGED <<checkpoints, n>>
          ELSE /\ pc' = "p2_config"
               /\ metrics' = SubSeq(ranked, 1, Min(Len(ranked), G.n_max_config))
               /\ checkpoints' = <<>>
               /\ n' = 1
    /\ UNCHANGED <<diskVars, root_cfg, metric_2nd, metric_3rd, best_model, trainerVars,
                   gs, ckpt_exist, best_model_ckpt, best_metric_score, epoch, run_config,
                   histVars>>

\* After checkpoints.append of line 361: the next row, or the evaluation loop
\* of line 363 (which starts from an empty metrics dict).
Phase2Append(d) ==
    /\ checkpoints' = Append(checkpoints, d)
    /\ IF n < Len(metrics)
       THEN n' = n + 1 /\ pc' = "p2_config" /\ metrics' = metrics
       ELSE n' = 1 /\ pc' = "p2_eval" /\ metrics' = <<>>

\* One pass of the loop of lines 355-361, up to the call of train(): the
\* Trainer is constructed with its defaults and no config.
Phase2Config ==
    /\ pc = "p2_config"
    /\ LET model_ckpt == metrics[n][1] IN
       IF NotTrainedTo(model_ckpt, G.epoch)
       THEN /\ StartTrainer(model_ckpt, TRAINER_CONFIG, TrainerDefaults(DefaultEpoch),
                            1, None)
            /\ pc' = "p2_wait"
            /\ UNCHANGED <<n, checkpoints, metrics>>
       ELSE /\ Phase2Append(model_ckpt)
            /\ UNCHANGED <<cfg, trainerVars>>
    /\ UNCHANGED <<snap, opt, evalc, rootVars, gs, ckpt_exist, best_model_ckpt,
                   best_metric_score, epoch, run_config, histVars>>

\* train() of line 360 returned.
Phase2Trained ==
    /\ pc = "p2_wait"
    /\ trainer_pc = "done"
    /\ Phase2Append(trainer_dir)
    /\ NoTrainer
    /\ UNCHANGED <<diskVars, rootVars, gs, ckpt_exist, best_model_ckpt,
                   best_metric_score, epoch, run_config, histVars>>

\* The decimal digits of k, and the order of strings: glob's paths are
\* sorted as strings at line 365, so epoch_10 comes before epoch_2.
RECURSIVE Digits(_)
Digits(k) == IF k < 10 THEN <<k>> ELSE Append(Digits(k \div 10), k % 10)

RECURSIVE LexLess(_, _)
LexLess(a, b) ==
    IF a = <<>> THEN b # <<>>
    ELSE IF b = <<>> THEN FALSE
    ELSE IF Head(a) # Head(b) THEN Head(a) < Head(b)
    ELSE LexLess(Tail(a), Tail(b))

RECURSIVE SortedEpochPaths(_)
SortedEpochPaths(S) ==
    IF S = {} THEN <<>>
    ELSE LET k == CHOOSE x \in S : \A y \in S \ {x} : LexLess(Digits(x), Digits(y))
         IN <<k>> \o SortedEpochPaths(S \ {k})

\* One pass of the outer loop of lines 363-368: every snapshot of the
\* directory is evaluated (or its cached metric read) and its metric written.
Phase2Eval ==
    /\ pc = "p2_eval"
    /\ LET d == checkpoints[n]
           paths == SortedEpochPaths(SnapshotEpochs(d))
           rows == [i \in 1..Len(paths) |->
                       <<d, paths[i], eval_single_model(d, paths[i]).metric>>]
       IN /\ metrics' = metrics \o rows
          /\ evalc' = [evalc EXCEPT ![d] =
                          [k \in Epochs |-> IF k \in SnapshotEpochs(d)
                                            THEN eval_single_model(d, k).metric ELSE @[k]]]
          /\ evaluated' = evaluated \cup
                          {<<d, k>> : k \in {x \in SnapshotEpochs(d) :
                                                 eval_single_model(d, x).invoked}}
    /\ IF n < Len(checkpoints)
       THEN n' = n + 1 /\ pc' = "p2_eval"
       ELSE n' = 1 /\ pc' = "p2_rank"
    /\ UNCHANGED <<cfg, snap, opt, rootVars, trainerVars, gs, ckpt_exist, checkpoints,
                   best_model_ckpt, best_metric_score, epoch, run_config, prev, kills, bound>>

\* Phase2Rank with the test of line 381 weakened: the third phase is also
\* entered when the best pair is below the configured epoch.
Phase2RankMutant ==
    /\ pc = "p2_rank"
    /\ LET ranked == SortByScore(metrics)
           best == ranked[1]
       IN /\ metric_2nd' = <<ranked>>
          /\ best_model_ckpt' = <<best[1], best[2]>>
          /\ best_metric_score' = best[3]
          /\ epoch' = best[2]
          /\ IF cfg[best[1]][TRAINER_CONFIG] = <<>>
             THEN /\ pc' = "raised"
                  /\ metrics' = ranked
                  /\ run_config' = run_config
             ELSE /\ run_config' = cfg[best[1]][TRAINER_CONFIG][1]
                  /\ IF best[2] <= G.static_config.epoch
                     THEN pc' = "p3_loop" /\ metrics' = << <<best[2], best[3]>> >>
                     ELSE pc' = "copy" /\ metrics' = ranked
    /\ UNCHANGED <<diskVars, root_cfg, metric_1st, metric_3rd, best_model, trainerVars,
                   gs, n, ckpt_exist, checkpoints, histVars>>

\* Lines 369-386: rank all (directory, epoch) pairs, write metric.2nd.json,
\* take the best and load its trainer_config.json; the third phase is entered
\* when the best pair is at the configured epoch.
Phase2Rank ==
    /\ pc = "p2_rank"
    /\ LET ranked == SortByScore(metrics)
           best == ranked[1]
       IN /\ metric_2nd' = <<ranked>>
          /\ best_model_ckpt' = <<best[1], best[2]>>
          /\ best_metric_score' = best[3]
          /\ epoch' = best[2]
          /\ IF cfg[best[1]][TRAINER_CONFIG] = <<>>
             THEN /\ pc' = "raised"
                  /\ metrics' = ranked
                  /\ run_config' = run_config
             ELSE /\ run_config' = cfg[best[1]][TRAINER_CONFIG][1]
                  /\ IF best[2] = G.static_config.epoch
                     THEN pc' = "p3_loop" /\ metrics' = << <<best[2], best[3]>> >>
                     ELSE pc' = "copy" /\ metrics' = ranked
    /\ UNCHANGED <<diskVars, root_cfg, metric_1st, metric_3rd, best_model, trainerVars,
                   gs, n, ckpt_exist, checkpoints, histVars>>

\* Lines 388-392: the next epoch, and the override file with that epoch count.
Phase3Step ==
    /\ pc = "p3_loop"
    /\ epoch + 1 <= MaxEpoch
    /\ epoch' = epoch + 1
    /\ run_config' = [run_config EXCEPT !.epoch = epoch + 1]
    /\ cfg' = [cfg EXCEPT ![best_model_ckpt[1]][ADDITIONAL_TRAINING] =
                              <<[run_config EXCEPT !.epoch = epoch + 1]>>]
    /\ pc' = "p3_check"
    /\ UNCHANGED <<snap, opt, evalc, rootVars, trainerVars, gs, n, ckpt_exist, checkpoints,
                   metrics, best_model_ckpt, best_metric_score, histVars>>

\* Lines 393-398, up to the call of train().
Phase3Check ==
    /\ pc = "p3_check"
    /\ IF NotTrainedTo(best_model_ckpt[1], epoch)
       THEN /\ StartTrainer(best_model_ckpt[1], ADDITIONAL_TRAINING,
                            TrainerDefaults(DefaultEpoch), 1, None)
            /\ pc' = "p3_wait"
       ELSE /\ pc' = "p3_eval"
            /\ UNCHANGED <<cfg, trainerVars>>
    /\ UNCHANGED <<snap, opt, evalc, rootVars, gs, n, ckpt_exist, checkpoints, metrics,
                   best_model_ckpt, best_metric_score, epoch, run_config, histVars>>

\* train() of line 398 returned.
Phase3Trained ==
    /\ pc = "p3_wait"
    /\ trainer_pc = "done"
    /\ pc' = "p3_eval"
    /\ NoTrainer
    /\ UNCHANGED <<diskVars, rootVars, gs, n, ckpt_exist, checkpoints, metrics,
                   best_model_ckpt, best_metric_score, epoch, run_config, histVars>>

\* Lines 401-416: evaluate the new epoch (the metric is not written back),
\* then stop when the best score is greater than the new one, writing
\* metric.3rd.json and stepping back one epoch; else go round again.
Phase3Eval ==
    /\ pc = "p3_eval"
    /\ LET d == best_model_ckpt[1]
           r == eval_single_model(d, epoch)
       IN IF r.raises
          THEN /\ pc' = "raised"
               /\ UNCHANGED <<metrics, evaluated, best_metric_score, metric_3rd,
                              run_config, best_model_ckpt>>
          ELSE /\ metrics' = Append(metrics, <<epoch, r.metric>>)
               /\ evaluated' = IF r.invoked THEN evaluated \cup {<<d, epoch>>} ELSE evaluated
               /\ IF best_metric_score > r.metric
                  THEN /\ pc' = "copy"
                       /\ metric_3rd' = <<metrics'>>
                       /\ run_config' = [run_config EXCEPT !.epoch = epoch - 1]
                       /\ best_model_ckpt' = <<d, epoch - 1>>
                       /\ best_metric_score' = best_metric_score
                  ELSE /\ pc' = "p3_loop"
                       /\ best_metric_score' = r.metric
                       /\ UNCHANGED <<metric_3rd, run_config, best_model_ckpt>>
    /\ UNCHANGED <<diskVars, root_cfg, metric_1st, metric_2nd, best_model, trainerVars,
                   gs, n, ckpt_exist, checkpoints, epoch, prev, kills, bound>>

\* Lines 418-420: copy_tree of the best snapshot onto best_model (a file the
\* source lacks is left as it was) and the config written there.
CopyBest ==
    /\ pc = "copy"
    /\ LET d == best_model_ckpt[1]
           k == best_model_ckpt[2]
           old == IF best_model = <<>> THEN None ELSE best_model[1].ev
       IN IF snap[d][k] = None
          THEN pc' = "raised" /\ best_model' = best_model
          ELSE /\ pc' = "done"
               /\ best_model' = <<[w |-> snap[d][k],
                                   ev |-> IF evalc[d][k] # None THEN evalc[d][k] ELSE old,
                                   cfg |-> run_config]>>
    /\ UNCHANGED <<diskVars, root_cfg, metric_1st, metric_2nd, metric_3rd, trainerVars,
                   gs, n, ckpt_exist, checkpoints, metrics, best_model_ckpt,
                   best_metric_score, epoch, run_config, histVars>>

\* The process is killed inside run().
Crash ==
    /\ pc \notin {"idle", "done", "raised", "crashed"}
    /\ kills < MaxKills
    /\ kills' = kills + 1
    /\ pc' = "crashed"
    /\ NoTrainer
    /\ UNCHANGED <<diskVars, rootVars, gs, n, ckpt_exist, checkpoints, metrics,
                   best_model_ckpt, best_metric_score, epoch, run_config, evaluated, prev, bound>>

\* The steps of run() in which no exception of a Trainer arrives.
RunPhases ==
    \/ RunBegin
    \/ Phase1Config
    \/ Phase1Trained
    \/ Phase1Eval
    \/ Phase1Rank
    \/ Phase2Config
    \/ Phase2Trained
    \/ Phase2Eval
    \/ Phase2Rank
    \/ Phase3Step
    \/ Phase3Check
    \/ Phase3Trained
    \/ Phase3Eval
    \/ CopyBest

RunStep ==
    \/ RunPhases
    \/ TrainerRaised

InitRoot ==
    /\ root_cfg = [static |-> <<>>, dynamic |-> <<>>, eval |-> <<>>]
    /\ metric_1st = <<>>
    /\ metric_2nd = <<>>
    /\ metric_3rd = <<>>
    /\ best_model = <<>>

InitRun ==
    /\ pc = "idle"
    /\ gs = <<>>
    /\ n = 0
    /\ ckpt_exist = [d \in Tokens |-> <<>>]
    /\ checkpoints = <<>>
    /\ metrics = <<>>
    /\ best_model_ckpt = <<>>
    /\ best_metric_score = None
    /\ epoch = None
    /\ run_config = NoConfig
    /\ evaluated = {}
    /\ prev = NoPrev
    /\ kills = 0
    /\ bound = {}

vars == <<diskVars, rootVars, trainerVars, runVars, histVars>>

\* An empty checkpoint root and no process.
Init == InitDisk /\ InitRoot /\ InitTrainer /\ InitRun

\* Grid searches run one after another on the same checkpoint root, each to
\* its return or its exception.
Next ==
    \/ GridSearcher__init__
    \/ RunStep
    \/ TrainerStep

Spec == Init /\ [][Next]_vars

\* A program that constructs Trainers on one checkpoint directory and calls
\* train(), each call to its return or its exception.
TrainerNext ==
    \/ NewTrainer
    \/ CallTrain
    \/ TrainerStep

SpecTrainer == Init /\ [][TrainerNext]_vars

\* The same program, which may be killed at any point and whose snapshot
\* loads may fail.
ResumeNext ==
    \/ NewTrainer
    \/ NewTrainerLoadError
    \/ CallTrain
    \/ TrainerStep
    \/ TrainerCrash

SpecResume == Init /\ [][ResumeNext]_vars

\* The one search that is started again and again when the process may be
\* killed: lr = 1e-4, epoch = 2, epoch_partial = 1, n_max_config = 1.
RestartArgs == {<<Scalar(10), 2, 1, 1>>}

GridSearcherRestart == NewSearcher(RestartArgs)

\* One grid search, started again on the same checkpoint root after each
\* return and after a kill at any point of run().  No Trainer of these runs
\* raises (TrainerRaised is never enabled), so run() moves by RunPhases.
CrashNext ==
    \/ GridSearcherRestart
    \/ RunPhases
    \/ TrainerStep
    \/ Crash

SpecCrash == Init /\ [][CrashNext]_vars

\* The values a candidate of a dynamic axis is made of, and the candidate
\* arguments built from them: a scalar, or a list of up to two values.
AxisValues == {None, 1, 10}
AxisInputs ==
    {Scalar(v) : v \in AxisValues}
    \cup {List(<<>>)}
    \cup {List(<<v>>) : v \in AxisValues}
    \cup {List(<<v, w>>) : v \in AxisValues, w \in AxisValues}

\* GridSearcher.__init__ (lines 232-272) with candidates for lr and
\* weight_decay; to_list is applied to the axes in the order of lines 255-261
\* and its assert ends the construction.
SearcherOfAxes(lr, wd, ep, partial, nmax) ==
    LET dc == [lr |-> to_list(lr), crf |-> to_list(Scalar(1)),
               random_seed |-> to_list(Scalar(0)), weight_decay |-> to_list(wd),
               lr_warmup_step_ratio |-> to_list(Scalar(None)),
               max_grad_norm |-> to_list(Scalar(None)),
               gradient_accumulation_steps |-> to_list(Scalar(1))]
    IN [static_config |-> [epoch |-> ep, batch_size |-> 32],
        dynamic_config |-> dc,
        epoch |-> ep, epoch_partial |-> partial, n_max_config |-> nmax,
        all_dynamic_configs |-> AllDynamicConfigs(dc)]

\* searcher = GridSearcher(checkpoint_dir, lr=..., weight_decay=..., epoch=...)
\* with any candidates on the two axes.
ConstructSearcher ==
    /\ pc \in {"idle", "done", "raised", "crashed"}
    /\ \E lr \in AxisInputs, wd \in AxisInputs, ep \in EpochArgs :
           IF to_list_raises(lr) \/ to_list_raises(wd)
           THEN pc' = "raised" /\ gs' = <<>>
           ELSE pc' = "ready" /\ gs' = <<SearcherOfAxes(lr, wd, ep, 1, 1)>>
    /\ prev' = NoPrev
    /\ NoRunLocals
    /\ UNCHANGED <<diskVars, rootVars, trainerVars, evaluated, kills, bound>>

\* A searcher that is left as constructed: run() is not called.
DropSearcher ==
    /\ pc = "ready"
    /\ pc' = "idle"
    /\ UNCHANGED <<diskVars, rootVars, trainerVars, histVars, gs, n, ckpt_exist,
                   checkpoints, metrics, best_model_ckpt, best_metric_score, epoch,
                   run_config>>

\* A program that only constructs GridSearchers.
SearcherNext ==
    \/ ConstructSearcher
    \/ DropSearcher

SpecSearcher == Init /\ [][SearcherNext]_vars

\* A checkpoint root in which the directory of the grid point lr = 1e-5 has
\* been copied: model_1 and model_2 hold the same trainer_config.json.
InitDup ==
    /\ cfg = [d \in Tokens |->
                 [f \in ConfigFiles |->
                     IF d \in {1, 2} /\ f = TRAINER_CONFIG
                     THEN <<MkConfig(2, 32, 1, 1, 0, 1, None, None, None)>> ELSE <<>>]]
    /\ snap = [d \in Tokens |-> [k \in Epochs |-> None]]
    /\ opt = [d \in Tokens |-> {}]
    /\ evalc = [d \in Tokens |-> [k \in Epochs |-> None]]
    /\ InitRoot /\ InitTrainer /\ InitRun

SpecDup == InitDup /\ [][Next]_vars

\* ======================================================================= claims
MaxOf(S) == IF S = {} THEN 0 ELSE CHOOSE x \in S : \A y \in S : y <= x

\* The epochs of directory d that have both snapshots and load.
Resumable(d, file, fails) ==
    {k \in SnapshotEpochs(d) : k \in opt[d] /\ k \notin fails /\ cfg[d][file] # <<>>}

\* C1: a constructed Trainer is at the largest epoch that has a model snapshot
\* and an optimizer snapshot and loads (0 if there is none), and that is the
\* epoch the following train() starts from.
C1_ResumeAtLargest ==
    trainer_pc \in {"constructed", "train"} =>
        current_epoch = MaxOf(Resumable(trainer_dir, trainer_file, load_fail))

\* A persisted root config differs from the one the searcher just computed.
ConfigMismatch ==
    \/ root_cfg.static # <<>> /\ root_cfg.static # <<G.static_config>>
    \/ root_cfg.dynamic # <<>> /\ root_cfg.dynamic # <<G.dynamic_config>>
    \/ root_cfg.eval # <<>> /\ root_cfg.eval # <<EvalConfig>>

\* C2: run() on a root whose persisted static, dynamic or eval config differs
\* from the fresh one raises at once and leaves the persisted files unchanged.
C2_MismatchIsFatal ==
    [][(pc = "ready" /\ pc' # "ready" /\ ConfigMismatch)
           => (pc' = "raised" /\ root_cfg' = root_cfg)]_vars

\* This run() follows a run() of a searcher with the same arguments that
\* returned, on the root as that run left it.
Rerun == prev.valid /\ prev.gs = gs

\* C3: a second run() to completion leaves the three ranked metric files as
\* the first run() left them and selects the same best checkpoint.
C3_SecondRunSameResults ==
    (pc = "done" /\ Rerun) =>
        /\ metric_1st = prev.m1
        /\ metric_2nd = prev.m2
        /\ metric_3rd = prev.m3
        /\ best_model_ckpt = prev.best_model_ckpt

\* C4: a second run() on a root where a first run() completed constructs no
\* Trainer and calls no train(), in any phase.
C4_SecondRunTrainsNothing == Rerun => trainer_pc = "none"

\* C5: once a checkpoint has been evaluated, in whichever phase, its metric is
\* in its eval/metric.json (so no later call evaluates it again).
C5_EvaluationIsCached ==
    \A c \in evaluated : evalc[c[1]][c[2]] # None

\* The best score of the rows before row i of the third phase's list.
RunningBest(i) == MaxOf({metrics[j][2] : j \in 1..(i - 1)})

\* C6: in the third phase the loop goes round again only after an epoch whose
\* metric is strictly greater than the running best, and the selection is the
\* epoch before the one that stopped the loop.
C6_StopAtFirstNonImprovement ==
    /\ pc \in {"p3_loop", "p3_check", "p3_wait", "p3_eval"} =>
           \A i \in 2..Len(metrics) : metrics[i][2] > RunningBest(i)
    /\ (pc = "copy" /\ epoch # best_model_ckpt[2]) =>
           best_model_ckpt[2] = epoch - 1 /\ run_config.epoch = epoch - 1

\* C7: after every completed save() the only optimizer snapshot in the
\* directory is the one just saved.
C7_SingleOptimizer ==
    trainer_pc = "saved" => opt[trainer_dir] = {e + 1}

\* C8: save() of epoch e+1 removes optimizer.e.pt and leaves the model
\* snapshots up to e as they were; no step ever removes a model snapshot.
C8_SnapshotsKept ==
    [][/\ \A d \in Tokens, k \in Epochs : snap[d][k] # None => snap'[d][k] # None
       /\ (trainer_pc = "save_rm" /\ trainer_pc' = "saved") =>
              /\ e \notin opt'[trainer_dir]
              /\ \A k \in 1..e : snap'[trainer_dir][k] = snap[trainer_dir][k]]_vars

\* A periodic save() has completed for epoch e+1 on top of epoch e: the
\* optimizer snapshot of e, there until this save, is gone and epoch_e is not.
C8_Witness ==
    /\ trainer_pc = "saved" /\ save_site = "loop" /\ e >= 1
    /\ e \notin opt[trainer_dir] /\ (e + 1) \in opt[trainer_dir]
    /\ snap[trainer_dir][e] # None

\* The directory the pass of the first phase's loop that just ran has
\* resolved its grid point to.
ResolvedDir == IF pc' = "p1_wait" THEN trainer_dir' ELSE checkpoints'[Len(checkpoints')]

\* C9: in the first phase a grid point matched by two or more existing
\* directories makes run() raise with nothing trained or created; matched by
\* one, that directory is used; matched by none, a new directory is created.
C9_DirectoryResolution ==
    [][pc = "p1_config" =>
        LET dup == DuplicatedCkpt(G.all_dynamic_configs[n]) IN
        /\ Cardinality(dup) >= 2 =>
               pc' = "raised" /\ UNCHANGED <<diskVars, trainerVars, checkpoints>>
        /\ Cardinality(dup) = 1 => pc' # "raised" /\ ResolvedDir \in dup
        /\ Cardinality(dup) = 0 =>
               /\ pc' = "p1_wait"
               /\ cfg[trainer_dir'][TRAINER_CONFIG] = <<>>
               /\ cfg'[trainer_dir'][TRAINER_CONFIG] # <<>>]_vars

\* run() has raised at a grid point that two existing directories match,
\* after training the grid point before it.
C9_Witness ==
    /\ pc = "raised" /\ gs # <<>> /\ n = 2 /\ Len(checkpoints) = 1
    /\ Cardinality(DuplicatedCkpt(G.all_dynamic_configs[n])) >= 2

\* C10: train() on a Trainer resumed at its configured epoch count raises and
\* changes nothing in the checkpoint directory.
C10_TrainingIsOver ==
    [][(trainer_pc = "train" /\ current_epoch = config.epoch /\ trainer_pc' # "train")
           => (trainer_pc' = "raised" /\ UNCHANGED diskVars)]_vars

\* train() has raised on a Trainer resumed at its epoch count.
C10_Witness ==
    trainer_pc = "raised" /\ current_epoch > 0 /\ current_epoch = config.epoch

\* C11: a Trainer constructed on a directory whose highest resumable epoch is
\* the epoch count of its config file is rejected by the constructor: no
\* Trainer object comes out of such a construction.
C11_ConstructorRejectsTrainingOver ==
    trainer_pc = "constructed" =>
        LET top == MaxOf(Resumable(trainer_dir, trainer_file, load_fail))
        IN ~(top > 0 /\ top = cfg[trainer_dir][trainer_file][1].epoch)

\* The product of the numbers of distinct values of the seven axes.
GridSize(dc) ==
    Cardinality(Range(dc.lr)) * Cardinality(Range(dc.crf))
    * Cardinality(Range(dc.random_seed)) * Cardinality(Range(dc.weight_decay))
    * Cardinality(Range(dc.lr_warmup_step_ratio)) * Cardinality(Range(dc.max_grad_norm))
    * Cardinality(Range(dc.gradient_accumulation_steps))

\* C12: whatever the candidates of the axes (scalars, lists, lists with None,
\* lists with a repeated value), the construction of a GridSearcher succeeds
\* and all_dynamic_configs holds one tuple per combination of distinct
\* values, no tuple twice.
C12_GridIsProductOfDistinct ==
    [][(pc \in {"idle", "done", "raised", "crashed"}) =>
          (/\ pc' = "ready"
           /\ Len(gs'[1].all_dynamic_configs) = GridSize(gs'[1].dynamic_config)
           /\ \A i, j \in 1..Len(gs'[1].all_dynamic_configs) :
                  i # j => gs'[1].all_dynamic_configs[i] # gs'[1].all_dynamic_configs[j])
      ]_vars

\* The model_* directories that hold a trainer_config.json.
ConfiguredDirs == {d \in Tokens : cfg[d][TRAINER_CONFIG] # <<>>}

\* C13: over the runs of one search, killed or not, a grid point is resolved
\* to one directory and always the same, two grid points never to the same
\* directory, and there are never more directories with a
\* trainer_config.json than grid points.
C13_OneDirectoryPerGridPoint ==
    /\ \A p \in bound, q \in bound : p[1] = q[1] => p[2] = q[2]
    /\ \A p \in bound, q \in bound : p[2] = q[2] => p[1] = q[1]
    /\ gs # <<>> => Cardinality(ConfiguredDirs) <= Len(G.all_dynamic_configs)

\* Directory d holds a complete checkpoint of epoch k: the model snapshot
\* epoch_k and optimizers/optimizer.k.pt.
Complete(d, k) == snap[d][k] # None /\ k \in opt[d]

\* A Trainer of run() is at work after the process has been killed once.
AfterCrash == kills > 0 /\ pc \in {"p1_wait", "p2_wait", "p3_wait"}

\* C14: in a run() that follows a kill, training starts at the first epoch
\* that has no complete checkpoint, and no epoch is trained whose complete
\* checkpoint is already there.
C14_NoRetrainAfterCrash ==
    /\ (AfterCrash /\ trainer_pc = "train") =>
           current_epoch = MaxOf({k \in Epochs : Complete(trainer_dir, k)})
    /\ (AfterCrash /\ trainer_pc = "epoch") => ~Complete(trainer_dir, e + 1)

\* C15: when run() has returned, whatever epoch and epoch_partial are,
\* best_model holds the copy of the checkpoint this run selected and the
\* config this run ended with.
C15_BestModelOnReturn ==
    pc = "done" =>
        /\ best_model # <<>>
        /\ best_model_ckpt # <<>>
        /\ best_model[1].w = snap[best_model_ckpt[1]][best_model_ckpt[2]]
        /\ best_model[1].cfg = run_config

\* C16: no step changes the contents of a trainer_config.json that exists,
\* and a trainer_config.additional_training.json that is written differs
\* from the directory's trainer_config.json in the epoch count only.
C16_TrainerConfigIsFrozen ==
    [][\A d \in Tokens :
          /\ cfg[d][TRAINER_CONFIG] # <<>> =>
                 cfg'[d][TRAINER_CONFIG] = cfg[d][TRAINER_CONFIG]
          /\ cfg'[d][ADDITIONAL_TRAINING] # cfg[d][ADDITIONAL_TRAINING] =>
                 /\ cfg'[d][TRAINER_CONFIG] # <<>>
                 /\ [cfg'[d][ADDITIONAL_TRAINING][1] EXCEPT
                        !.epoch = cfg'[d][TRAINER_CONFIG][1].epoch]
                    = cfg'[d][TRAINER_CONFIG][1]
      ]_vars

\* C17: a Trainer constructed while the load of some candidates raised is
\* never at one of those candidates; when the highest candidate is one that
\* raised, the Trainer is at the next complete epoch below it that loads, or
\* at 0 if no candidate loads.
C17_FailedCandidateIsSkipped ==
    (trainer_pc = "constructed" /\ load_fail # {}) =>
        /\ current_epoch \notin load_fail
        /\ MaxOf({k \in Epochs : Complete(trainer_dir, k)}) \in load_fail =>
               current_epoch = MaxOf(Resumable(trainer_dir, trainer_file, load_fail))

\* The same, without the requirement on which of the loading candidates the
\* Trainer ends at.
C17_NeverAtFailedCandidate ==
    (trainer_pc = "constructed" /\ load_fail # {}) =>
        /\ current_epoch \notin load_fail
        /\ current_epoch \in Resumable(trainer_dir, trainer_file, load_fail) \cup {0}
        /\ (current_epoch = 0) = (Resumable(trainer_dir, trainer_file, load_fail) = {})

\* C18: a constructed Trainer is at epoch 0 or at an epoch whose optimizer
\* snapshot exists, whatever a kill inside save() has left in the directory.
C18_NoResumeFromHalfWritten ==
    trainer_pc \in {"constructed", "train"} =>
        current_epoch = 0 \/ current_epoch \in opt[trainer_dir]

\* A Trainer constructed on a directory whose last model snapshot has no
\* optimizer snapshot (a kill between the two writes of save()), resumed
\* from a complete epoch below it.
C18_Witness ==
    /\ trainer_pc = "constructed"
    /\ current_epoch > 0
    /\ \E k \in Epochs :
           /\ k > current_epoch
           /\ snap[trainer_dir][k] # None
           /\ k \notin opt[trainer_dir]
           /\ \A j \in Epochs : j > k => snap[trainer_dir][j] = None

\* The positions inside a call of train().
InTrain == {"train", "epoch", "save_model", "save_opt", "save_rm", "saved", "partial"}

\* The epoch count the running train() is to stop at: epoch_partial if
\* given, else the configured epoch count.
LastEpoch == IF epoch_partial # None THEN epoch_partial ELSE config.epoch

\* C19: train(epoch_partial=P) on a Trainer at epoch c, c < P <= configured
\* epoch, trains the epochs c .. P-1 in turn, creates no snapshot above
\* epoch_P, and returns with epoch_P and optimizer.P.pt in place; train()
\* without epoch_partial does the same up to the configured epoch count,
\* whatever epoch_save is.
C19_TrainStopsWhereAsked ==
    [][(/\ trainer_pc \in InTrain
        /\ current_epoch < LastEpoch
        /\ LastEpoch <= config.epoch) =>
          (/\ trainer_pc' = "epoch" =>
                  /\ e' = IF trainer_pc = "train" THEN current_epoch ELSE e + 1
                  /\ e' <= LastEpoch - 1
           /\ \A k \in Epochs :
                  k > LastEpoch => snap'[trainer_dir][k] = snap[trainer_dir][k]
           /\ trainer_pc' # "raised"
           /\ trainer_pc' = "done" =>
                  /\ e = LastEpoch - 1
                  /\ Complete(trainer_dir, LastEpoch))
      ]_vars

\* train(epoch_partial=2) has returned on a Trainer of three epochs resumed
\* at epoch 1: epoch_2 is complete and there is no epoch_3.
C19_Witness ==
    /\ trainer_pc = "done"
    /\ current_epoch = 1 /\ epoch_partial = 2 /\ config.epoch = 3
    /\ Complete(trainer_dir, 2)
    /\ snap[trainer_dir][3] = None

\* The positions of run() inside the training loop of phase 2.
InPhase2 == {"p2_config", "p2_wait"}

\* The directories of the min(n_max_config, grid size) first rows of
\* metric.1st.json.
TopConfigs ==
    LET ranked == metric_1st[1]
        k == Min(G.n_max_config, Len(G.all_dynamic_configs))
    IN {ranked[i][1] : i \in 1..Min(k, Len(ranked))}

\* What phase 2 does to the directories, whether or not it gets to its end:
\* its rows are the top rows of metric.1st.json, it writes no snapshot
\* outside them, and when it goes on to its evaluation every top directory
\* has epoch_<epoch>.
Phase2TrainsTopOnly ==
    /\ metrics = SubSeq(metric_1st[1], 1,
                        Min(G.n_max_config, Len(G.all_dynamic_configs)))
    /\ \A d \in Tokens \ TopConfigs : snap'[d] = snap[d]
    /\ pc' = "p2_eval" =>
           /\ \A d \in TopConfigs : snap'[d][G.epoch] # None
           /\ Len(checkpoints') = Min(G.n_max_config, Len(G.all_dynamic_configs))

\* C20: phase 2 of run() trains exactly the min(n_max_config, grid size)
\* highest-ranked configurations of metric.1st.json on to the configured
\* epoch count: it leaves the other configurations' snapshots alone, and it
\* goes on to its evaluation with epoch_<epoch> in every top directory.
C20_Phase2TrainsTopConfigs ==
    [][(pc \in InPhase2) =>
          (/\ Phase2TrainsTopOnly
           /\ pc' \in InPhase2 \cup {"p2_eval"})
      ]_vars

\* The part of C20 that does not depend on phase 2 getting to its end.
C20_WhenPhase2Completes == [][(pc \in InPhase2) => Phase2TrainsTopOnly]_vars

\* The positions of run() inside phase 3.
InPhase3 == {"p3_loop", "p3_check", "p3_wait", "p3_eval"}

\* C21: phase 3 is entered only from the ranking of phase 2 and only when
\* the first row of metric.2nd.json is at the configured epoch; when that
\* row's epoch is below it, run() goes straight to the copy, training no
\* epoch and writing no trainer_config.additional_training.json and no
\* metric.3rd.json, and best_model is the snapshot of that row.
C21_Phase3OnlyAtMaxEpoch ==
    [][/\ (pc \notin InPhase3 /\ pc' \in InPhase3) =>
            /\ pc = "p2_rank"
            /\ metric_2nd'[1][1][2] = G.static_config.epoch
       /\ (pc = "p2_rank" /\ metric_2nd'[1][1][2] < G.static_config.epoch) =>
            /\ pc' \in {"copy", "raised"}
            /\ UNCHANGED <<cfg, snap, opt, metric_3rd>>
       /\ (pc = "copy" /\ metric_2nd[1][1][2] < G.static_config.epoch) =>
            /\ pc' \in {"done", "raised"}
            /\ UNCHANGED <<cfg, snap, opt, metric_3rd>>
            /\ pc' = "done" =>
                   best_model'[1].w = snap[metric_2nd[1][1][1]][metric_2nd[1][1][2]]
      ]_vars

\* run() has returned with a best pair below the configured epoch: there is
\* a best_model and there has never been a metric.3rd.json.
C21_Witness ==
    /\ pc = "done"
    /\ metric_2nd # <<>>
    /\ metric_2nd[1][1][2] < G.static_config.epoch
    /\ best_model # <<>>
    /\ metric_3rd = <<>>
    /\ \A d \in Tokens : cfg[d][ADDITIONAL_TRAINING] = <<>>

\* The metric values strictly above m: the improvements still possible.
Above(m) == {x \in Metrics : x > m}

\* C22: phase 3 terminates for metrics drawn from a finite set: the loop goes
\* round again only after a strict improvement of the running best, so it
\* begins no more further rounds than there are metric values above the best
\* of metric.2nd.json, and none after an epoch that equals the running best.
C22_Phase3Terminates ==
    pc = "p3_loop" =>
        epoch - G.static_config.epoch <= Cardinality(Above(metric_2nd[1][1][3]))

\* What the loop does with an epoch whose metric equals the running best:
\* it goes round again with the running best as it was, so the same round
\* is taken at the next epoch, and the next.
C22_TieGoesRound ==
    [][(/\ pc = "p3_eval"
        /\ pc' # "raised"
        /\ metrics'[Len(metrics')][2] = best_metric_score) =>
          (/\ pc' = "p3_loop"
           /\ best_metric_score' = best_metric_score
           /\ UNCHANGED <<metric_3rd, best_model_ckpt, epoch>>)
      ]_vars

\* m is at least every metric of the metric.2nd.json of this run and, when
\* its first row sent the run into phase 3, of the metric.3rd.json written
\* at the end of that phase.
Dominates(m) ==
    /\ \A i \in 1..Len(metric_2nd[1]) : metric_2nd[1][i][3] <= m
    /\ metric_2nd[1][1][2] = G.static_config.epoch =>
          \A i \in 1..Len(metric_3rd[1]) : metric_3rd[1][i][2] <= m

====
